---------------------------- MODULE Spec2Model ----------------------------
(***************************************************************************)
(* A model of the options parser (src/src/options.c): the scanner, the     *)
(* token stack (shift / unshift / reduce), the scope chain and the         *)
(* recursive descent parser parse_file / parse_section / parse_option /    *)
(* parse_suboption, driven by parse_options on a byte string.              *)
(*                                                                         *)
(* The C call stack is the variable `stack`: one frame per active parse_*  *)
(* call, each holding the callee's scope_t and its locals.  One action is  *)
(* one iteration of a parser loop (a shift, the scan it may trigger, the   *)
(* branch taken and the trailing reduce), or the return of a callee into   *)
(* its caller.  Offsets and indices are the C ones (0-based).              *)
(*                                                                         *)
(* assert(): the build decides.  Without NDEBUG a failing assert aborts    *)
(* the process; with NDEBUG the code runs on.  A step in which an assert   *)
(* fails therefore has both outcomes until the build is known.             *)
(***************************************************************************)
EXTENDS Integers, Sequences, FiniteSets, TLC

VARIABLES
  options,   \* id of the virtual file-scope option wrapping the user's schema
  string,    \* the input handed to parse_options
  file,      \* parser->file: buffer, token stack, latest indent, location
  stack,     \* the active parse_* calls, outermost first
  events,    \* calls of enter / accept / exit, in order
  status,    \* RUNNING until the driver returns or the process dies
  code,      \* what the driver returned
  error,     \* the diagnostic printed by syntax_error / semantic_error
  build,     \* "any" until an assert fails: then "debug" (abort) or "ndebug"
  runs,      \* results of the driver calls that have returned before
  cancel,    \* the callback that returns a negative code, and the code
  log        \* files set up, parsed and closed, and searches closed, in order

vars == <<options, string, file, stack, events, status, code, error, build, runs,
          cancel, log>>

-----------------------------------------------------------------------------
(* Token codes *)
END_OF_FILE == 0
SPACE == 1
LINE_FEED == 2
COMMENT == 3
OPTION == 4
SECTION == 5
SUBOPTION == 6
INCLUDE == 7
VALUE == 8
QUOTED_VALUE == 9

(* Return codes *)
SYNTAX_ERROR == -1
SEMANTIC_ERROR == -2
OUT_OF_MEMORY == -1
NO_ACCESS == -2
NO_SUCH_FILE == -3
BAD_PARAMETER == -4

(* How a run stands: the driver has not returned yet, it has returned, or   *)
(* the process died: abort() from a failed assert, a fault (a NULL          *)
(* dereference, a wild memmove), or undefined behaviour.                    *)
RUNNING == "running"
RETURNED == "returned"
ABORTED == "aborted"
CRASHED == "crashed"
UNDEFINED == "undefined"

NULL == 0

\* code & OPTION
HasOptionBit(c) == (c \div 4) % 2 = 1

Max(a, b) == IF a > b THEN a ELSE b

\* element i of a C array held as a sequence
At(s, i) == s[i + 1]

-----------------------------------------------------------------------------
(* Character classes *)
Letters ==
  {"a","b","c","d","e","f","g","h","i","j","k","l","m","n","o","p","q","r",
   "s","t","u","v","w","x","y","z",
   "A","B","C","D","E","F","G","H","I","J","K","L","M","N","O","P","Q","R",
   "S","T","U","V","W","X","Y","Z"}
Digits == {"0","1","2","3","4","5","6","7","8","9"}

\* "DEL" stands for byte 0x7f, one of the bytes the table rejects
table(ch) ==
  CASE ch \in {" ", "\t", "\r"} -> 1
    [] ch = "\n" -> 2
    [] ch = "#" -> 3
    [] ch \in Letters \cup Digits -> 4
    [] ch = "DEL" -> -1
    [] OTHER -> 8

-----------------------------------------------------------------------------
(* The schema: option_t nodes by id (NULL is 0).  Three user schemas share  *)
(* the nodes: a flat one, the one of parse.c with a section of two options, *)
(* and one with nested and sibling sections.                                *)
Options == <<
  [code |-> SUBOPTION, pattern |-> <<"x">>,         options |-> <<>>],
  [code |-> OPTION,    pattern |-> <<"f","o","o">>, options |-> <<1>>],
  [code |-> OPTION,    pattern |-> <<"b","a","r">>, options |-> <<>>],
  [code |-> SECTION,   pattern |-> <<"q","u","x">>, options |-> <<2, 3>>],
  [code |-> SECTION,   pattern |-> <<"b","a","z">>, options |-> <<2, 3>>],
  [code |-> SECTION,   pattern |-> <<"b","a","z">>, options |-> <<2, 3, 4>>],
  [code |-> SECTION,   pattern |-> <<>>,            options |-> <<2, 3>>],
  [code |-> SECTION,   pattern |-> <<>>,            options |-> <<5>>],
  [code |-> SECTION,   pattern |-> <<>>,            options |-> <<6, 4, 2, 3>>],
  [code |-> INCLUDE,   pattern |-> <<"i","n","c","l","u","d","e">>, options |-> <<>>],
  [code |-> SECTION,   pattern |-> <<>>,            options |-> <<>>] >>

Flat == 7
OneSection == 8
Nested == 9
include == 10

\* Schema nodes carry enter and exit callbacks; the file scope's virtual
\* option (and the include node) carry none.
HasCallbacks(option) == Options[option].pattern # <<>> /\ option # include

-----------------------------------------------------------------------------
(* The context a step threads through the calls it makes: the file, the     *)
(* events emitted, the diagnostic, the value returned by the last call      *)
(* (code) and shift's out-parameter (token).  `asserted` records that an    *)
(* assert failed in the step and `aevents` the events emitted before it;    *)
(* `halt` records a fault of the NDEBUG build.                              *)

ZeroToken == [code |-> 0, line |-> 0, column |-> 0, first |-> 0, size |-> 0, option |-> NULL]

\* tokens.data[i]; the array is calloc'ed, so a slot never written is zero
Tok(f, i) == IF i < Len(f.tokens.data) THEN At(f.tokens.data, i) ELSE ZeroToken

Byte(f, i) == At(f.buffer.data, i)

Check(c, cond) ==
  IF c.halt # "none" \/ c.asserted \/ cond THEN c
  ELSE [c EXCEPT !.asserted = TRUE, !.aevents = c.events]

Fault(c, how) == IF c.halt # "none" THEN c ELSE [c EXCEPT !.halt = how]

syntax_error(c, line, column, message) ==
  [c EXCEPT !.error = [message |-> message, line |-> line, column |-> column],
            !.code = SYNTAX_ERROR]

semantic_error(c, line, column, message) ==
  [c EXCEPT !.error = [message |-> message, line |-> line, column |-> column],
            !.code = SEMANTIC_ERROR]

have_char(f, first) ==
  IF first < f.buffer.size THEN table(Byte(f, first)) ELSE 0

RECURSIVE scan_space(_, _)
scan_space(f, first) ==
  IF have_char(f, first) = SPACE THEN scan_space(f, first + 1) ELSE first

RECURSIVE scan_comment(_, _)
scan_comment(f, first) ==
  IF have_char(f, first) > 0 /\ Byte(f, first) # "\n"
  THEN scan_comment(f, first + 1) ELSE first

RECURSIVE scan_identifier(_, _)
scan_identifier(f, first) ==
  IF have_char(f, first) = OPTION THEN scan_identifier(f, first + 1) ELSE first

RECURSIVE scan_value(_, _)
scan_value(f, first) ==
  IF have_char(f, first) >= OPTION /\ Byte(f, first) # "\""
  THEN scan_value(f, first + 1) ELSE first

\* memcmp over the file buffer, byte by byte: 0 when the n bytes at a and b
\* are equal, 1 at the first difference, 2 when a read leaves the buffer
\* before a difference was found (undefined).
RECURSIVE memcmp(_, _, _, _)
memcmp(f, a, b, n) ==
  IF n = 0 THEN 0
  ELSE IF a >= f.buffer.size \/ b >= f.buffer.size THEN 2
  ELSE IF Byte(f, a) # Byte(f, b) THEN 1
  ELSE memcmp(f, a + 1, b + 1, n - 1)

is_indent(f, scope, indent) ==
  LET encloser == Tok(f, scope.indent)
      enclosed == Tok(f, indent)
      size == Max(encloser.size, enclosed.size)
  IN memcmp(f, encloser.first, enclosed.first, size)

in_scope(f, scope, indent) ==
  LET encloser == Tok(f, scope.indent)
      enclosed == Tok(f, indent)
  IN IF encloser.size > enclosed.size THEN 1
     ELSE IF encloser.size < enclosed.size THEN -1
     ELSE 0

matches(option, name) == Options[option].pattern = name

is_include(state, name) ==
  IF OPTION \notin state THEN NULL
  ELSE IF ~matches(include, name) THEN NULL
  ELSE include

RECURSIVE first_match(_, _, _)
first_match(children, i, name) ==
  IF i > Len(children) THEN NULL
  ELSE IF matches(children[i], name) THEN children[i]
  ELSE first_match(children, i + 1, name)

has_option(option, name) ==
  IF Options[option].code # SECTION THEN NULL
  ELSE first_match(Options[option].options, 1, name)

has_suboption(option, name) ==
  IF Options[option].code # OPTION THEN NULL
  ELSE first_match(Options[option].options, 1, name)

\* The result of a lookup: the option found (or NULL), whether the asserts
\* on the way held, and whether memcmp read past the buffer.
Lookup(option, ok, cmp) ==
  [option |-> IF cmp = 0 THEN option ELSE NULL, ok |-> ok, ub |-> cmp = 2]

\* the for loop of is_option, from scope chain[k] outwards, and the file
\* scope after it; chain[1] is the file scope (encloser NULL)
RECURSIVE is_option_from(_, _, _, _)
is_option_from(f, chain, k, name) ==
  LET inner == Tok(f, f.indent) IN
  IF k > 1
  THEN LET outer == Tok(f, chain[k].indent)
           ok == chain[k].indent # 0 /\ outer.code = SPACE
       IN IF outer.size <= inner.size
          THEN LET cmp == memcmp(f, outer.size, inner.size, outer.size)
               IN Lookup(IF cmp = 0 THEN has_option(chain[k].option, name) ELSE NULL,
                         ok, cmp)
          ELSE LET r == is_option_from(f, chain, k - 1, name)
               IN [r EXCEPT !.ok = ok /\ r.ok]
  ELSE LET outer == Tok(f, chain[1].indent)
           ok == chain[1].indent = 0 /\ outer.size = 0
       IN Lookup(IF outer.size = 0 /\ inner.size = 0
                 THEN has_option(chain[1].option, name) ELSE NULL, ok, 0)

is_option(f, chain, state, name) ==
  LET k == Len(chain)
      inner == Tok(f, f.indent)
  IN IF OPTION \notin state THEN Lookup(NULL, TRUE, 0)
     ELSE IF k > 1 /\ chain[k].indent = 0
     THEN LET outer == Tok(f, chain[k - 1].indent)
              ok == outer.code = SPACE
          IN IF outer.size < inner.size
             THEN LET cmp == memcmp(f, outer.size, inner.size, outer.size)
                  IN Lookup(IF cmp = 0 THEN has_option(chain[k].option, name) ELSE NULL,
                            ok, cmp)
             ELSE LET r == is_option_from(f, chain, k - 1, name)
                  IN [r EXCEPT !.ok = ok /\ r.ok]
     ELSE is_option_from(f, chain, k, name)

is_suboption(chain, state, name) ==
  IF SUBOPTION \notin state THEN NULL
  ELSE has_suboption(chain[Len(chain)].option, name)

\* !handle || feof(handle): a string input has no handle
empty(f) == f.handle = NULL \/ f.feof

SetAt(s, i, v) == IF i < Len(s) THEN [s EXCEPT ![i + 1] = v] ELSE Append(s, v)

tokenize(c, tcode, first, last, option) ==
  LET f == c.file
      size == last - first
      c1 == Check(Check(Check(c, last >= first),
                        (tcode = END_OF_FILE) = (size = 0)),
                  f.tokens.size < f.tokens.capacity)
      token == [code |-> tcode, line |-> f.location.line,
                column |-> f.location.column,
                first |-> first, size |-> size, option |-> option]
      location == IF tcode = LINE_FEED
                  THEN [line |-> f.location.line + 1, column |-> 1]
                  ELSE [line |-> f.location.line,
                        column |-> f.location.column + size]
      c2 == IF tcode = LINE_FEED THEN Check(c1, size = 1) ELSE c1
  IN [c2 EXCEPT !.file.tokens.data = SetAt(f.tokens.data, f.tokens.size, token),
                !.file.tokens.size = f.tokens.size + 1,
                !.file.buffer.first = f.buffer.first + size,
                !.file.location = location,
                !.code = tcode]

RECURSIVE quoted_end_lf(_, _, _)
\* the loop of scan_quoted_value without the test for a line feed
quoted_end_lf(f, last, escaped) ==
  IF last = f.buffer.size
  THEN [message |-> "unterminated quoted value", last |-> last]
  ELSE IF Byte(f, last) = "\"" /\ ~escaped
  THEN [message |-> "", last |-> last]
  ELSE quoted_end_lf(f, last + 1, Byte(f, last) = "\\" /\ ~escaped)

\* the loop of scan_quoted_value from offset last: the offset of the
\* closing quote, or the diagnostic
RECURSIVE quoted_end(_, _, _)
quoted_end(f, last, escaped) ==
  IF last = f.buffer.size
  THEN [message |-> "unterminated quoted value", last |-> last]
  ELSE IF Byte(f, last) = "\n"
  THEN [message |-> "line feed in quoted value", last |-> last]
  ELSE IF Byte(f, last) = "\"" /\ ~escaped
  THEN [message |-> "", last |-> last]
  ELSE quoted_end(f, last + 1, Byte(f, last) = "\\" /\ ~escaped)

scan_quoted_value(c) ==
  LET f == c.file
      first == f.buffer.first
      r == quoted_end(f, first + 1, FALSE)
  IN IF r.message # ""
     THEN syntax_error(c, f.location.line, f.location.column, r.message)
     ELSE tokenize(c, QUOTED_VALUE, first, r.last + 1, NULL)

\* the token scan makes of an identifier, given what the lookups found
scan_named(c, first, last, inc, opt, sub) ==
  IF inc # NULL THEN tokenize(c, Options[inc].code, first, last + 1, inc)
  ELSE IF opt.option # NULL
  THEN tokenize(IF opt.ub THEN Fault(Check(c, opt.ok), "undefined")
                ELSE Check(c, opt.ok),
                Options[opt.option].code, first, last + 1, opt.option)
  ELSE IF sub # NULL
  THEN tokenize(IF opt.ub THEN Fault(Check(c, opt.ok), "undefined")
                ELSE Check(c, opt.ok),
                Options[sub].code, first, last + 1, sub)
  ELSE tokenize(IF opt.ub THEN Fault(Check(c, opt.ok), "undefined")
                ELSE Check(c, opt.ok),
                VALUE, first, scan_value(c.file, last), NULL)

\* the OPTION branch of scan's loop, after scan_identifier stopped at last
scan_option(c, chain, state, first, last) ==
  LET f == c.file
      end == Byte(f, last)
      name == SubSeq(f.buffer.data, first + 1, last)
  IN scan_named(c, first, last,
                IF end = ":" THEN is_include(state, name) ELSE NULL,
                IF end = ":" /\ is_include(state, name) = NULL
                THEN is_option(f, chain, state, name) ELSE Lookup(NULL, TRUE, 0),
                IF end = "=" THEN is_suboption(chain, state, name) ELSE NULL)

\* refill() is unimplemented and returns 0 without reading, so a token that
\* reaches buffer.size ends there
scan(c, chain, state) ==
  LET f == c.file
      first == f.buffer.first
      type == table(Byte(f, first))
      last == first + 1
  IN IF first = f.buffer.size THEN tokenize(c, END_OF_FILE, first, first, NULL)
     ELSE IF Byte(f, first) = "\"" THEN scan_quoted_value(c)
     ELSE IF type < 0
     THEN syntax_error(c, f.location.line, f.location.column, "invalid character")
     ELSE IF last = f.buffer.size THEN tokenize(c, type, first, last, NULL)
     ELSE IF type = SPACE THEN tokenize(c, type, first, scan_space(f, last), NULL)
     ELSE IF type = COMMENT THEN tokenize(c, type, first, scan_comment(f, last), NULL)
     ELSE IF type = LINE_FEED THEN tokenize(c, type, first, last, NULL)
     ELSE IF type = OPTION
     THEN LET stop == scan_identifier(f, last) IN
          IF stop = f.buffer.size /\ ~empty(f) THEN tokenize(c, type, first, stop, NULL)
          ELSE IF stop = f.buffer.size THEN tokenize(c, VALUE, first, stop, NULL)
          ELSE scan_option(c, chain, state, first, stop)
     ELSE tokenize(Check(c, type = VALUE), VALUE, first, scan_value(f, last), NULL)

\* return parser->file->tokens.data[(*token = parser->file->tokens.last++)].code;
shift_token(c) ==
  [c EXCEPT !.token = c.file.tokens.last,
            !.file.tokens.last = @ + 1,
            !.code = Tok(c.file, c.file.tokens.last).code]

\* after scan: if ((code = scan(parser, scope, state)) < 0) return code;
shift_scanned(c) ==
  IF c.code < 0 THEN c
  ELSE shift_token(Check(c, c.file.tokens.last < c.file.tokens.size))

\* the token array grows by 64 when it is full
shift_grow(c) ==
  IF c.file.tokens.size = c.file.tokens.capacity
  THEN [c EXCEPT !.file.tokens.capacity = @ + 64] ELSE c

shift(c, chain, state) ==
  IF c.halt # "none" THEN c
  ELSE IF c.file.tokens.last = c.file.tokens.size
  THEN shift_scanned(scan(shift_grow(Check(Check(c, c.file.tokens.last > 0),
                                           c.file.tokens.size > 0)),
                          chain, state))
  ELSE shift_token(Check(Check(Check(c, c.file.tokens.last > 0),
                               c.file.tokens.size > 0),
                         c.file.tokens.last < c.file.tokens.size))

unshift(c) ==
  LET f == c.file
      c1 == Check(Check(c, f.tokens.last > 1), f.tokens.last <= f.tokens.size)
  IN IF c.halt # "none" THEN c
     ELSE IF f.tokens.last = 0 THEN Fault(c1, "undefined")
     ELSE [c1 EXCEPT !.file.tokens.last = @ - 1]

\* An entry of the log: a call of include_file ("include"), a file_t set up
\* with its token buffer ("open"), a parse_file call on an included file
\* under a virtual section ("parse"), close_file ("close"), find_close
\* ("find_close"), or a call of reduce that its asserts reject ("assert").
Op(op, name, option) == [op |-> op, name |-> name, option |-> option]

Logged(c, op, name, option) == [c EXCEPT !.log = Append(@, Op(op, name, option))]

\* the asserts at the entry of reduce
reduce_asserts(f, token) ==
  /\ f.tokens.last > 1
  /\ f.tokens.last <= f.tokens.size
  /\ token > 0 /\ token < f.tokens.last
  /\ f.indent # token

\* memmove(data + token, data + token + 1, size - token): slot i takes slot
\* i + 1 for token <= i < size.  size - token is unsigned: a token beyond
\* size moves about 2^64 elements, a fault.
\* The log keeps a call that one of the asserts at reduce's entry rejects.
reduce(c, token) ==
  LET f == c.file
      c0 == IF reduce_asserts(f, token) THEN c
            ELSE Logged(c, "assert", <<"reduce">>, NULL)
      c1 == Check(Check(Check(c0, f.tokens.last > 1),
                        f.tokens.last <= f.tokens.size),
                  token > 0 /\ token < f.tokens.last)
      c2 == Check(c1, f.indent # token)
      n == Max(Len(f.tokens.data), f.tokens.size)
      data == [i \in 1..n |->
                IF i - 1 >= token /\ i - 1 < f.tokens.size
                THEN Tok(f, i) ELSE Tok(f, i - 1)]
  IN IF c.halt # "none" THEN c
     ELSE IF token > f.tokens.size THEN Fault(c1, "fault")
     ELSE IF f.tokens.last = 0 \/ f.tokens.size = 0 THEN Fault(c2, "undefined")
     ELSE [c2 EXCEPT !.file.tokens.data = data,
                     !.file.indent = IF @ > token THEN @ - 1 ELSE @,
                     !.file.tokens.last = @ - 1,
                     !.file.tokens.size = @ - 1]

-----------------------------------------------------------------------------
(* Callback dispatch.  An event is one call of a schema callback (enter,    *)
(* exit) or of accept(), with the lexeme it was given: the location, the    *)
(* offset of its first byte and its length.  The enter and exit callbacks   *)
(* of the schema return 0, but for the one `cancel` names; accept() calls   *)
(* no callback: it prints the token and returns 0.                          *)

\* no callback returns a negative code
NoCancel == [kind |-> "none", option |-> NULL, code |-> 0]

\* what the schema's callback of this kind returns for the option
Returns(kind, option) ==
  IF cancel.kind = kind /\ cancel.option = option THEN cancel.code ELSE 0

Event(kind, option, token, length) ==
  [kind |-> kind, option |-> option, line |-> token.line,
   column |-> token.column, first |-> token.first, length |-> length,
   callback |-> kind # "accept",
   returned |-> IF kind = "accept" THEN 0 ELSE Returns(kind, option)]

Emit(c, e) ==
  IF c.halt # "none" THEN c
  ELSE [c EXCEPT !.events = Append(@, e), !.code = e.returned]

\* scope->option->enter dereferences scope->option: a fault when it is NULL
enter_scope(c, scope) ==
  LET f == c.file
      token == Tok(f, scope.identifier)
      c1 == Check(c, scope.option # NULL)
      c2 == Check(Check(Check(c1, scope.identifier < f.tokens.last),
                        HasOptionBit(token.code)),
                  token.first < f.buffer.size)
  IN IF c.halt # "none" THEN c
     ELSE IF scope.option = NULL THEN Fault(c1, "fault")
     ELSE IF ~HasCallbacks(scope.option) THEN [c1 EXCEPT !.code = 0]
     ELSE Emit(c2, Event("enter", scope.option, token, token.size))

\* exit_scope without the call of the exit callback
exit_scope_silent(c, scope, hasEncloser, encloser) ==
  LET c1 == Check(c, scope.option # NULL)
      c3 == IF scope.option = NULL THEN Fault(c1, "fault")
            ELSE [c1 EXCEPT !.code = 0]
      c4 == IF hasEncloser /\ scope.indent > encloser.indent
            THEN reduce(c3, scope.indent) ELSE c3
  IN IF c.halt # "none" THEN c
     ELSE [c4 EXCEPT !.code = c3.code]

\* hasEncloser: scope->encloser != NULL, encloser its scope
exit_scope(c, scope, hasEncloser, encloser) ==
  LET f == c.file
      token == Tok(f, scope.identifier)
      c1 == Check(c, scope.option # NULL)
      c2 == Check(Check(Check(c1, scope.identifier < f.tokens.last),
                        HasOptionBit(token.code)),
                  token.first < f.buffer.size)
      c3 == IF scope.option = NULL THEN Fault(c1, "fault")
            ELSE IF ~HasCallbacks(scope.option) THEN [c1 EXCEPT !.code = 0]
            ELSE Emit(c2, Event("exit", scope.option, token, token.first))
      c4 == IF hasEncloser /\ scope.indent > encloser.indent
            THEN reduce(c3, scope.indent) ELSE c3
  IN IF c.halt # "none" THEN c
     ELSE [c4 EXCEPT !.code = c3.code]

\* accept() prints scope->option->pattern.data and the token's bytes
accept(c, scope, token) ==
  IF c.halt # "none" THEN c
  ELSE IF scope.option = NULL THEN Fault(c, "fault")
  ELSE Emit(c, Event("accept", scope.option, token, token.size))

-----------------------------------------------------------------------------
(* Frames of the call stack *)

Scope(indent, identifier, option) ==
  [indent |-> indent, identifier |-> identifier, option |-> option]

Frame(fn, scope, state) ==
  [fn |-> fn, pc |-> IF fn = "parse_file" THEN "loop" ELSE "enter",
   scope |-> scope, indent |-> FALSE, newline |-> FALSE, state |-> state,
   last |-> 0, code |-> 0]

Chain(frames) == [i \in 1..Len(frames) |-> frames[i].scope]

\* What one step of a parse_* call leaves: the context, the frame, and the
\* frame of the call it makes, if any.
Ret(c, fr, value) ==
  [c |-> c, frame |-> [fr EXCEPT !.pc = "return", !.code = value], call |-> <<>>]
Cont(c, fr) == [c |-> c, frame |-> fr, call |-> <<>>]
Call(c, fr, callee) == [c |-> c, frame |-> fr, call |-> <<callee>>]

\* the token parse_suboption shifted: a value is accepted
suboption_value(c, scope) ==
  IF c.code = LINE_FEED
  THEN IF c.file.indent > scope.indent THEN reduce(c, c.token) ELSE c
  ELSE IF c.code \in {VALUE, QUOTED_VALUE}
  THEN accept(c, scope, Tok(c.file, c.token))
  ELSE c

suboption_exit(c, scope, encloser) ==
  IF c.code < 0 THEN c ELSE exit_scope(c, scope, TRUE, encloser)

suboption_shifted(c, scope, encloser) ==
  IF c.code < 0 THEN c
  ELSE suboption_exit(suboption_value(c, scope), scope, encloser)

suboption_entered(c, chain) ==
  IF c.code < 0 THEN c
  ELSE suboption_shifted(shift(c, chain, {VALUE}),
                         chain[Len(chain)], chain[Len(chain) - 1])

parse_suboption(c, chain) ==
  suboption_entered(enter_scope(c, chain[Len(chain)]), chain)

-----------------------------------------------------------------------------
(* The include manager and what it consumes: the wildcard matcher, the      *)
(* directory search and fopen.  The file system is fixed: the working       *)
(* directory with a few entries.                                            *)

DT_DIR == 4
DT_REG == 8
DT_UNKNOWN == 0
FIND_REGULAR == 8
FIND_DIRECTORY == 4
FIND_UNKNOWN == 0

Directories == <<".">> :> << [d_name |-> <<".">>, d_type |-> DT_DIR],
                            [d_name |-> <<"a", "b">>, d_type |-> DT_REG],
                            [d_name |-> <<"a", "c">>, d_type |-> DT_UNKNOWN],
                            [d_name |-> <<"1">>, d_type |-> DT_REG],
                            [d_name |-> <<"c">>, d_type |-> DT_REG],
                            [d_name |-> <<"d">>, d_type |-> DT_REG] >>

\* the bytes of the regular files: "ab" includes "1" and "1" includes "a*"
Contents ==
  <<"a", "b">> :> <<"b", "a", "z", ":", "\n", " ", " ", "i", "n", "c", "l", "u", "d", "e", ":", " ", "1", "\n">>
  @@ <<"1">> :> <<"b", "a", "z", ":", "\n", " ", " ", "i", "n", "c", "l", "u", "d", "e", ":", " ", "a", "*", "\n">>
  @@ <<"c">> :> <<"f", "o", "o", ":", " ", "a", "b", "\n">>
  @@ <<"d">> :> <<"b", "a", "z", ":", "\n", " ", " ", "f", "o", "o", ":", " ", "\"", "a", " ", "b", "\"", "\n">>

\* the names fopen(name, "rb") opens
Files == DOMAIN Contents

RECURSIVE match_mask_end(_, _)
RECURSIVE match_star_end(_, _)
\* match_mask without its last loop, `for (; *mask == '*'; mask++) ;`
match_star_end(name, mask) ==
  IF name = <<>> THEN mask = <<>>
  ELSE IF match_mask_end(name, mask) THEN TRUE
  ELSE match_star_end(Tail(name), mask)

match_mask_end(name, mask) ==
  IF name # <<>> /\ mask # <<>>
  THEN IF Head(mask) = "*" THEN match_star_end(name, Tail(mask))
       ELSE IF Head(name) # Head(mask) /\ Head(mask) # "?" THEN FALSE
       ELSE match_mask_end(Tail(name), Tail(mask))
  ELSE name = <<>> /\ mask = <<>>

RECURSIVE match_mask(_, _)
RECURSIVE match_star(_, _)
RECURSIVE skip_stars(_)
skip_stars(mask) ==
  IF mask # <<>> /\ Head(mask) = "*" THEN skip_stars(Tail(mask)) ELSE mask

\* the inner loop of match_mask after a '*': mask is what follows the '*'
match_star(name, mask) ==
  IF name = <<>> THEN mask = <<>>
  ELSE IF match_mask(name, mask) THEN TRUE
  ELSE match_star(Tail(name), mask)

match_mask(name, mask) ==
  IF name # <<>> /\ mask # <<>>
  THEN IF Head(mask) = "*" THEN match_star(name, Tail(mask))
       ELSE IF Head(name) # Head(mask) /\ Head(mask) # "?" THEN FALSE
       ELSE match_mask(Tail(name), Tail(mask))
  ELSE name = <<>> /\ skip_stars(mask) = <<>>

RECURSIVE last_slash(_, _)
\* the index of the last '/' among the first n bytes of filespec, or 0
last_slash(filespec, n) ==
  IF n = 0 THEN 0
  ELSE IF filespec[n] = "/" THEN n
  ELSE last_slash(filespec, n - 1)

find_type(d_type) ==
  IF d_type = DT_DIR THEN FIND_DIRECTORY
  ELSE IF d_type = DT_REG THEN FIND_REGULAR
  ELSE FIND_UNKNOWN

\* find_file and the find_next_file calls after it: the entries of the
\* directory that match the mask, in readdir order, or the error
find_file(filespec) ==
  LET slash == last_slash(filespec, Len(filespec))
      mask == SubSeq(filespec, slash + 1, Len(filespec))
      directory == IF slash = 0 THEN <<".">> ELSE SubSeq(filespec, 1, slash)
  IN IF mask = <<>> THEN [code |-> BAD_PARAMETER, found |-> <<>>]
     ELSE IF directory \notin DOMAIN Directories
     THEN [code |-> NO_SUCH_FILE, found |-> <<>>]
     ELSE [code |-> 0,
           found |-> SelectSeq(Directories[directory],
                               LAMBDA e : match_mask(e.d_name, mask))]

NoFile ==
  [includer |-> <<>>, name |-> <<>>, path |-> <<>>, handle |-> NULL, feof |-> FALSE,
   location |-> [line |-> 0, column |-> 0],
   buffer |-> [first |-> 0, size |-> 0, capacity |-> 0, data |-> <<>>],
   tokens |-> [last |-> 0, size |-> 0, capacity |-> 0, data |-> <<>>],
   indent |-> 0]

\* open_file: memset clears the whole file_t, the includer link included;
\* nothing is read into the buffer
open_file(name) ==
  [NoFile EXCEPT
     !.name = name, !.path = name,
     !.handle = IF name \in Files THEN 1 ELSE NULL,
     !.location = IF name \in Files THEN [line |-> 1, column |-> 1] ELSE @,
     !.tokens = IF name \in Files
                THEN [last |-> 1, size |-> 1, capacity |-> 64,
                      data |-> <<[code |-> SPACE, line |-> 1, column |-> 1,
                                  first |-> 0, size |-> 0, option |-> NULL]>>]
                ELSE @]

RECURSIVE close_files(_, _)
\* close_files from parser->file (f) along the includer links
close_files(f, lg) ==
  IF f = NoFile THEN lg
  ELSE close_files(IF f.includer = <<>> THEN NoFile ELSE f.includer[1],
                   Append(lg, Op("close", f.name, NULL)))

RECURSIVE on_chain(_, _)
\* whether a file on the includer chain from `includer` has the path
on_chain(path, includer) ==
  IF includer = <<>> THEN FALSE
  ELSE IF includer[1].path = path THEN TRUE
  ELSE on_chain(path, includer[1].includer)

-----------------------------------------------------------------------------
(* The parser: one iteration of each loop *)

\* the end of an iteration: reduce(parser, last) and indent = (code == LINE_FEED)
LoopEnd(c, fr, tcode, last) ==
  Cont(reduce(c, last), [fr EXCEPT !.indent = (tcode = LINE_FEED)])

\* return the code a call returned
RetCode(c, fr) == Ret(c, fr, c.code)

\* after a call in the loop: if (code < 0) return code; then the loop's end
Proceed(c, fr, last) ==
  IF c.halt # "none" THEN Cont(c, fr)
  ELSE IF c.code < 0 THEN Ret(c, fr, c.code)
  ELSE LoopEnd(c, fr, c.code, last)

\* an iteration of parse_file's loop on what shift returned
parse_file_token(s, fr, chain) ==
  LET scope == fr.scope
      last == s.token
      f == s.file
      token == Tok(f, last)
      fr1 == [fr EXCEPT !.last = last]
  IN IF s.halt # "none" THEN Cont(s, fr)
     ELSE IF s.code < 0 THEN Ret(s, fr, s.code)
     ELSE IF s.code = END_OF_FILE
     THEN RetCode(exit_scope(s, scope, FALSE, scope), fr1)
     ELSE IF s.code = SPACE /\ fr.indent
     THEN Cont([s EXCEPT !.file.indent = last], fr1)
     ELSE IF s.code = LINE_FEED
     THEN LET r == IF f.indent # 0 THEN reduce(s, f.indent) ELSE s
              a == Check(r, r.file.tokens.size > 1)
          IN LoopEnd([a EXCEPT !.file.indent = 0], fr1, s.code, last)
     ELSE IF s.code \in {OPTION, SECTION}
     THEN IF f.indent # 0
          THEN Ret(semantic_error(s, token.line, token.column,
                                  "syntax error, no indentation at file level"),
                   fr1, SEMANTIC_ERROR)
          ELSE Call(s, fr1,
                    IF s.code = OPTION
                    THEN Frame("parse_option", Scope(0, last, token.option),
                               {SUBOPTION, VALUE})
                    ELSE Frame("parse_section", Scope(0, last, token.option), {}))
     ELSE IF s.code # COMMENT /\ s.code # SPACE
     THEN Ret(semantic_error(s, token.line, token.column, "syntax error"),
              fr1, SEMANTIC_ERROR)
     ELSE LoopEnd(s, fr1, s.code, last)

parse_file_step(c, fr, chain) ==
  parse_file_token(shift(c, chain, fr.state), fr, chain)

\* the virtual section include_file parses the included file under: it takes
\* the children of scope->option, the node of the include directive itself
virtual(option) ==
  CHOOSE v \in DOMAIN Options :
    /\ Options[v].code = SECTION
    /\ Options[v].pattern = <<>>
    /\ Options[v].options = Options[option].options

\* The included file's buffer is empty and refill reads nothing, so the
\* parse_file call on it is the one iteration that scans END_OF_FILE.
\* file->includer was cleared by open_file, so parser->file ends up NULL
\* (NoFile); the next use of it faults.  close_file closes the file.
included(p) ==
  [p.c EXCEPT !.file = NoFile, !.code = p.frame.code,
              !.log = Append(@, Op("close", p.c.file.name, NULL))]

\* include_file once open_file has replaced parser->file
include_opened(opened, chain, includer, filename) ==
  LET scope == chain[Len(chain)]
      encloser == chain[Len(chain) - 1]
  IN IF filename \notin Files THEN [opened EXCEPT !.code = NO_SUCH_FILE]
     ELSE IF on_chain(opened.file.path, includer)
     THEN semantic_error(Logged(opened, "open", filename, NULL), 1, 1,
                         "circular include")
     ELSE included(parse_file_step(
            Logged(Logged(Check(opened, encloser.option # NULL
                                   /\ Options[encloser.option].code = SECTION),
                          "open", filename, NULL),
                   "parse", filename, virtual(scope.option)),
            Frame("parse_file", Scope(0, 0, virtual(scope.option)), {OPTION}),
            <<Scope(0, 0, virtual(scope.option))>>))

include_file(c, chain, filename) ==
  include_opened([Logged(c, "include", filename, NULL)
                    EXCEPT !.file = open_file(filename)],
                 chain, <<c.file>>, filename)

\* find_close(handle); return code;
include_closed(r, filespec) ==
  [Logged(r, "find_close", filespec, NULL) EXCEPT !.code = r.code]

RECURSIVE include_found(_, _, _, _)
\* if ((code = include_file(parser, scope, data.name)) < 0) break;
include_next(r, chain, found, i) ==
  IF r.code < 0 THEN r ELSE include_found(r, chain, found, i + 1)

\* the loop of include_filespec over the search results from the i-th
include_found(c, chain, found, i) ==
  IF i > Len(found) THEN [c EXCEPT !.code = 0]  \* find_next_file returns 0
  ELSE IF find_type(found[i].d_type) = 1
  THEN include_next(include_file(c, chain, found[i].d_name), chain, found, i)
  ELSE include_found(c, chain, found, i + 1)

\* find_file closes the handle itself when the search cannot start
include_filespec(c, chain, filespec) ==
  LET r == find_file(filespec)
  IN IF r.code < 0
     THEN [Logged(c, "find_close", filespec, NULL) EXCEPT !.code = r.code]
     ELSE include_closed(include_found(c, chain, r.found, 1), filespec)

\* code = include_filespec(parser, scope, file); reduce(parser, value); return code;
include_reduce(i, value) == [reduce(i, value) EXCEPT !.code = i.code]

\* the file name is the token at value
include_named(u, chain, value) ==
  LET token == Tok(u.file, value)
  IN include_reduce(
       include_filespec(u, chain,
                        SubSeq(u.file.buffer.data, token.first + 1,
                               token.first + token.size)),
       value)

\* the directive must end with the line
include_end(b, chain, value) ==
  LET etok == Tok(b.file, b.token)
  IN IF b.halt # "none" \/ b.code < 0 THEN b
     ELSE IF b.code \notin {LINE_FEED, END_OF_FILE}
     THEN semantic_error(b, etok.line, etok.column,
                         "include: directive takes only a file name")
     ELSE include_named(unshift(b), chain, value)

\* a comment after the file name is dropped
include_comment(b, chain, value) ==
  IF b.halt # "none" \/ b.code < 0 THEN b
  ELSE include_end(IF b.code = COMMENT
                   THEN shift(reduce(b, b.token), chain, {}) ELSE b,
                   chain, value)

\* space after the file name is dropped
include_space(b, chain, value) ==
  IF b.halt # "none" \/ b.code < 0 THEN b
  ELSE include_comment(IF b.code = SPACE
                       THEN shift(reduce(b, b.token), chain, {}) ELSE b,
                       chain, value)

\* the token after "include:" and the space is the file name
include_value(a, chain) ==
  LET vtok == Tok(a.file, a.token)
  IN IF a.halt # "none" \/ a.code < 0 THEN a
     ELSE IF a.code \notin {VALUE, QUOTED_VALUE}
     THEN semantic_error(a, vtok.line, vtok.column,
                         "include: directive takes a file name")
     ELSE include_space(shift(a, chain, {}), chain, a.token)

\* space between "include:" and the file name is dropped
include_first(a, chain) ==
  IF a.halt # "none" \/ a.code < 0 THEN a
  ELSE include_value(IF a.code = SPACE
                     THEN shift(reduce(a, a.token), chain, {}) ELSE a,
                     chain)

parse_include(c, chain) == include_first(shift(c, chain, {}), chain)

\* an iteration of parse_section's loop on what shift returned
parse_section_token(s, fr, chain) ==
  LET scope == fr.scope
      encloser == chain[Len(chain) - 1]
      last == s.token
      f == s.file
      token == Tok(f, last)
      fr1 == [fr EXCEPT !.last = last]
      enclosed == Scope(0, last, token.option)
  IN IF s.halt # "none" THEN Cont(s, fr)
     ELSE IF s.code < 0 THEN Ret(s, fr, s.code)
     ELSE IF s.code = END_OF_FILE
     THEN RetCode(exit_scope(unshift(s), scope, TRUE, encloser), fr1)
     ELSE IF s.code = SPACE /\ fr.indent
     THEN Cont([s EXCEPT !.file.indent = last],
               IF scope.indent = 0 /\ in_scope(f, encloser, last) = -1
               THEN [fr1 EXCEPT !.scope.indent = last] ELSE fr1)
     ELSE IF s.code = LINE_FEED
     THEN LET r == IF f.indent > scope.indent /\ f.indent > encloser.indent
                   THEN reduce(s, f.indent) ELSE s
          IN LoopEnd([r EXCEPT !.file.indent = 0],
                  [fr1 EXCEPT !.state = @ \cup {OPTION}], s.code, last)
     ELSE IF HasOptionBit(s.code)
     THEN LET cmp == is_indent(f, scope, f.indent)
              depth == in_scope(f, scope, f.indent)
          IN IF cmp = 2 THEN Cont(Fault(s, "undefined"), fr1)
             ELSE IF cmp # 0
             THEN Ret(syntax_error(s, token.line, token.column,
                                   "syntax error, invalid indentation"),
                      fr1, SYNTAX_ERROR)
             ELSE IF depth = 1
             THEN RetCode(exit_scope(unshift(s), scope, TRUE, encloser), fr1)
             ELSE IF depth = -1
             THEN Ret(syntax_error(s, token.line, token.column,
                                   "syntax error, invalid indentation"),
                      fr1, SYNTAX_ERROR)
             ELSE IF s.code = OPTION
             THEN Call(s, fr1, Frame("parse_option", enclosed, {SUBOPTION, VALUE}))
             ELSE IF s.code = SECTION
             THEN Call(s, fr1, Frame("parse_section", enclosed, {}))
             ELSE Proceed(parse_include(s, Append(chain, enclosed)), fr1, last)
     ELSE IF s.code # COMMENT /\ s.code # SPACE
     THEN Ret(syntax_error(s, token.line, token.column, "syntax error"),
              fr1, SYNTAX_ERROR)
     ELSE LoopEnd(s, fr1, s.code, last)

parse_section_step(c, fr, chain) ==
  parse_section_token(shift(c, chain, fr.state), fr, chain)

\* an iteration of parse_option's loop on what shift returned
parse_option_token(s, fr, chain) ==
  LET scope == fr.scope
      encloser == chain[Len(chain) - 1]
      last == s.token
      f == s.file
      token == Tok(f, last)
      fr1 == [fr EXCEPT !.last = last]
  IN IF s.halt # "none" THEN Cont(s, fr)
     ELSE IF s.code < 0 THEN Ret(s, fr, s.code)
     ELSE IF s.code = END_OF_FILE \/ HasOptionBit(s.code)
     THEN RetCode(exit_scope(unshift(s), scope, TRUE, encloser), fr1)
     ELSE IF s.code = SPACE /\ fr.indent
     THEN Cont([s EXCEPT !.file.indent = last],
               IF scope.indent = 0 /\ in_scope(f, encloser, last) = -1
               THEN [fr1 EXCEPT !.scope.indent = last] ELSE fr1)
     ELSE IF s.code = LINE_FEED
     THEN LET r == IF f.indent > scope.indent /\ f.indent > encloser.indent
                   THEN reduce(s, f.indent) ELSE s
          IN LoopEnd([r EXCEPT !.file.indent = 0],
                     [fr1 EXCEPT !.state = @ \cup {OPTION}, !.newline = TRUE],
                     s.code, last)
     ELSE IF s.code = SUBOPTION
     THEN LET cmp == is_indent(f, scope, f.indent)
          IN IF fr.newline /\ cmp = 2 THEN Cont(Fault(s, "undefined"), fr1)
             ELSE IF fr.newline /\ cmp # 0
             THEN Ret(syntax_error(s, token.line, token.column,
                                   "syntax error, bad indent"), fr1, SYNTAX_ERROR)
             ELSE IF fr.newline /\ in_scope(f, scope, f.indent) # 0
             THEN Ret(semantic_error(s, token.line, token.column,
                                     "syntax error, bad indent"), fr1, SEMANTIC_ERROR)
             ELSE Proceed(parse_suboption(s, Append(chain,
                                                    Scope(0, last, token.option))),
                          [fr1 EXCEPT !.state = @ \ {OPTION, VALUE}], last)
     ELSE IF s.code \in {VALUE, QUOTED_VALUE}
     THEN IF VALUE \notin fr.state
          THEN Ret(semantic_error(s, token.line, token.column, "unexpected literal"),
                   fr1, SEMANTIC_ERROR)
          ELSE IF fr.newline /\ in_scope(f, scope, f.indent) = 0
          THEN Ret(semantic_error(s, token.line, token.column, "scope did not match"),
                   fr1, SEMANTIC_ERROR)
          ELSE Proceed(accept(s, scope, token),
                       [fr1 EXCEPT !.state = @ \ {OPTION}], last)
     ELSE LoopEnd(Check(s, s.code = COMMENT \/ s.code = SPACE), fr1, s.code, last)

parse_option_step(c, fr, chain) ==
  parse_option_token(shift(c, chain, fr.state), fr, chain)

-----------------------------------------------------------------------------
(* Inputs: texts of up to MaxLines lines over a set of lines per schema,    *)
(* with or without the final line feed.                                     *)

MaxLines == 3

FlatLines ==
  { <<"f", "o", "o", ":", " ", "1">>,
    <<"f", "o", "o", ":", " ", "a", "b">>,
    <<"b", "a", "r", ":", " ", "\"", "a", " ", "b", "\"">>,
    <<"f", "o", "o", ":", " ", "1", " ", "x", "=", "2">>,
    <<"b", "a", "r", ":", " ", "\"", "a">>,
    <<>>,
    <<" ", " ">>,
    <<"#", " ", "c">> }

SectionLines ==
  { <<"b", "a", "z", ":">>,
    <<" ", " ", "f", "o", "o", ":", " ", "a", "b">>,
    <<" ", " ", "b", "a", "r", ":", " ", "1">>,
    <<" ", "b", "a", "r", ":", " ", "a", "b">>,
    <<" ", " ", "f", "o", "o", ":", " ", "\"", "a", " ", "b", "\"">>,
    <<>>,
    <<" ">>,
    <<" ", " ", "f", "o", "o", ":", " ", "1", " ", "x", "=", "2">> }

NestedLines ==
  { <<"b", "a", "z", ":">>,
    <<"q", "u", "x", ":">>,
    <<" ", " ", "f", "o", "o", ":", " ", "a", "b">>,
    <<" ", " ", "b", "a", "r", ":", " ", "a", "b">>,
    <<"f", "o", "o", ":", " ", "a", "b">>,
    <<" ", " ", " ", " ", "b", "a", "r", ":", " ", "a", "b">>,
    <<" ", " ", "q", "u", "x", ":">> }

RECURSIVE Text(_, _)
\* the lines joined by line feeds, with a final line feed when nl
Text(lines, nl) ==
  IF lines = <<>> THEN <<>>
  ELSE IF Len(lines) = 1 THEN lines[1] \o (IF nl THEN <<"\n">> ELSE <<>>)
  ELSE lines[1] \o <<"\n">> \o Text(Tail(lines), nl)

Texts(lineSet, n) ==
  { Text(ls, nl) : ls \in UNION { [1..k -> lineSet] : k \in 1..n }, nl \in BOOLEAN }

\* The input of parse.c's main, and inputs of four lines: a section of three
\* options, two top-level sections, and a section nested in a section.
Examples ==
  { [options |-> OneSection,
      string |-> <<"b", "a", "z", ":", "\n", " ", " ", "f", "o", "o", ":", " ", "\"", "f", "o", "o", " ", "b", "a", "r", "\"", "\n", " ", " ", "b", "a", "r", ":", " ", "b", "a", "z">>],
    [options |-> OneSection,
      string |-> <<"b", "a", "z", ":", "\n", " ", " ", "f", "o", "o", ":", " ", "a", "b", "\n", " ", " ", "b", "a", "r", ":", " ", "a", "b", "\n", " ", " ", "f", "o", "o", ":", " ", "a", "b", "\n">>],
    [options |-> Nested,
      string |-> <<"b", "a", "z", ":", "\n", " ", " ", "f", "o", "o", ":", " ", "a", "b", "\n", "q", "u", "x", ":", "\n", " ", " ", "b", "a", "r", ":", " ", "a", "b", "\n">>],
    [options |-> Nested,
      string |-> <<"b", "a", "z", ":", "\n", " ", " ", "f", "o", "o", ":", " ", "a", "b", "\n", "q", "u", "x", ":", "\n", " ", " ", "b", "a", "r", ":", " ", "a", "b">>],
    [options |-> Nested,
      string |-> <<"b", "a", "z", ":", "\n", " ", " ", "q", "u", "x", ":", "\n", " ", " ", " ", " ", "b", "a", "r", ":", " ", "a", "b", "\n", " ", " ", "f", "o", "o", ":", " ", "a", "b", "\n">>] }

\* the calls of parse_options with an input of at most n lines
Calls(n) ==
  { [options |-> Flat, string |-> t] : t \in Texts(FlatLines, n) }
  \cup { [options |-> OneSection, string |-> t] : t \in Texts(SectionLines, n) }
  \cup { [options |-> Nested, string |-> t] : t \in Texts(NestedLines, n) }

Inputs == Calls(MaxLines) \cup Examples

-----------------------------------------------------------------------------
(* The driver and the state machine *)

NoError == [message |-> "", line |-> 0, column |-> 0]

\* the file parse_options sets up for a string
StringFile(str) ==
  [includer |-> <<>>, name |-> <<"<string>">>, path |-> <<"<string>">>,
   handle |-> NULL, feof |-> FALSE,
   location |-> [line |-> 1, column |-> 1],
   buffer |-> [first |-> 0, size |-> Len(str), capacity |-> Len(str), data |-> str],
   tokens |-> [last |-> 1, size |-> 1, capacity |-> 64,
               data |-> <<[code |-> SPACE, line |-> 1, column |-> 1,
                           first |-> 0, size |-> 0, option |-> NULL]>>],
   indent |-> 0]

\* parse_options up to its call of parse_file
Start(opt, str) ==
  /\ options = opt
  /\ string = str
  /\ file = StringFile(str)
  /\ stack = <<Frame("parse_file", Scope(0, 0, opt), {OPTION})>>
  /\ events = <<>>
  /\ status = RUNNING
  /\ code = 0
  /\ error = NoError
  /\ log = <<Op("open", <<"<string>">>, NULL)>>

Init ==
  /\ \E in \in Inputs : Start(in.options, in.string)
  /\ build = "any"
  /\ runs = <<>>
  /\ cancel = NoCancel

Context ==
  [file |-> file, events |-> events, error |-> error, code |-> 0, token |-> 0,
   halt |-> "none", asserted |-> FALSE, aevents |-> <<>>, log |-> log]

Top == stack[Len(stack)]

\* The builds a step is a step of: an assert that fails tells a build with
\* assertions (the process aborts) from one without (it runs on).
Builds(c) ==
  IF ~c.asserted THEN {build}
  ELSE IF build = "any" THEN {"debug", "ndebug"}
  ELSE {build}

Died(how, evs) ==
  /\ status' = how
  /\ events' = evs
  /\ stack' = <<>>
  /\ UNCHANGED <<options, string, file, code, error, runs, cancel, log>>

\* the state a step leaves, given what it computed and the frames below
\* the one it ran in
CommitAt(r, below) ==
  \E b \in Builds(r.c) :
    /\ build' = b
    /\ IF r.c.asserted /\ b = "debug" THEN Died(ABORTED, r.c.aevents)
       ELSE IF r.c.halt = "fault" THEN Died(CRASHED, r.c.events)
       ELSE IF r.c.halt # "none" THEN Died(UNDEFINED, r.c.events)
       ELSE /\ file' = r.c.file
            /\ events' = r.c.events
            /\ error' = r.c.error
            /\ stack' = below \o <<r.frame>> \o r.call
            /\ log' = r.c.log
            /\ UNCHANGED <<options, string, status, code, runs, cancel>>

Commit(r) == CommitAt(r, SubSeq(stack, 1, Len(stack) - 1))

\* if ((code = enter_scope(parser, scope)) < 0) return code;
Entered(c, fr) ==
  IF c.halt # "none" THEN Cont(c, fr)
  ELSE IF c.code < 0 THEN Ret(c, fr, c.code)
  ELSE Cont(c, [fr EXCEPT !.pc = "loop"])

\* the entry of parse_section and parse_option
enter_step(c, fr) == Entered(enter_scope(c, fr.scope), fr)

ParseFile ==
  /\ status = RUNNING /\ stack # <<>>
  /\ Top.fn = "parse_file" /\ Top.pc = "loop"
  /\ Commit(parse_file_step(Context, Top, Chain(stack)))

ParseSection ==
  /\ status = RUNNING /\ stack # <<>>
  /\ Top.fn = "parse_section" /\ Top.pc \in {"enter", "loop"}
  /\ Commit(IF Top.pc = "enter" THEN enter_step(Context, Top)
            ELSE parse_section_step(Context, Top, Chain(stack)))

ParseOption ==
  /\ status = RUNNING /\ stack # <<>>
  /\ Top.fn = "parse_option" /\ Top.pc \in {"enter", "loop"}
  /\ Commit(IF Top.pc = "enter" THEN enter_step(Context, Top)
            ELSE parse_option_step(Context, Top, Chain(stack)))

\* A callee returns into parse_file or parse_section:
\*   if (code < 0) return code;  indent = (code == LINE_FEED);  reduce(parser, last);
Return ==
  /\ status = RUNNING /\ Len(stack) > 1
  /\ Top.pc = "return"
  /\ CommitAt(IF Top.code < 0
              THEN Ret(Context, stack[Len(stack) - 1], Top.code)
              ELSE LoopEnd(Context, stack[Len(stack) - 1], Top.code,
                           stack[Len(stack) - 1].last),
              SubSeq(stack, 1, Len(stack) - 2))

\* parse_file returns into parse_options, which closes the files and
\* returns its code
parse_options ==
  /\ status = RUNNING /\ Len(stack) = 1
  /\ Top.pc = "return"
  /\ status' = RETURNED
  /\ code' = Top.code
  /\ stack' = <<>>
  /\ log' = close_files(file, log)
  /\ UNCHANGED <<options, string, file, events, error, build, runs, cancel>>

Next == ParseFile \/ ParseSection \/ ParseOption \/ Return \/ parse_options

Spec == Init /\ [][Next]_vars

-----------------------------------------------------------------------------
(* A second call of parse_options, by the same build, on an edit of the     *)
(* first call's input: the final line feed dropped, or an empty line or a   *)
(* line of one space inserted where a line starts.  `runs` keeps what the   *)
(* first call returned.                                                     *)

MaxEditLines == 2

\* the offsets at which a line starts: 0, and the offset after a line feed
Boundaries(str) == {0} \cup { i \in 1..Len(str) : str[i] = "\n" }

Insert(str, i, line) == SubSeq(str, 1, i) \o line \o SubSeq(str, i + 1, Len(str))

Edits(str) ==
  { [kind |-> "chop", string |-> SubSeq(str, 1, Len(str) - 1)] :
      i \in { j \in {Len(str)} : j > 0 /\ str[j] = "\n" } }
  \cup { [kind |-> "blank", string |-> Insert(str, i, <<"\n">>)] :
            i \in Boundaries(str) }
  \cup { [kind |-> "space", string |-> Insert(str, i, <<" ", "\n">>)] :
            i \in Boundaries(str) }

Rerun ==
  /\ status # RUNNING /\ runs = <<>>
  /\ \E e \in Edits(string) :
       /\ runs' = <<[edit |-> e.kind, string |-> string, status |-> status,
                     code |-> code, events |-> events, error |-> error]>>
       /\ string' = e.string
       /\ file' = StringFile(e.string)
  /\ stack' = <<Frame("parse_file", Scope(0, 0, options), {OPTION})>>
  /\ events' = <<>>
  /\ status' = RUNNING
  /\ code' = 0
  /\ error' = NoError
  /\ log' = <<Op("open", <<"<string>">>, NULL)>>
  /\ UNCHANGED <<options, build, cancel>>

InitEdit ==
  /\ \E in \in Calls(MaxEditLines) \cup Examples : Start(in.options, in.string)
  /\ build = "any"
  /\ runs = <<>>
  /\ cancel = NoCancel

NextEdit == Next \/ Rerun

SpecEdit == InitEdit /\ [][NextEdit]_vars



-----------------------------------------------------------------------------
(* parse_options_file on a file of the working directory, and then          *)
(* parse_options on the bytes of that file.  `string` is the file name      *)
(* during the first call.                                                   *)

\* a name no file has
Missing == <<"z">>

\* parse_options_file up to its call of parse_file, or up to error_open
StartFile(opt, name) ==
  /\ options = opt
  /\ string = name
  /\ file = IF name \in Files THEN open_file(name) ELSE NoFile
  /\ stack = <<IF name \in Files
               THEN Frame("parse_file", Scope(0, 0, opt), {OPTION})
               ELSE [Frame("parse_file", Scope(0, 0, opt), {OPTION})
                       EXCEPT !.pc = "return", !.code = NO_SUCH_FILE]>>
  /\ events = <<>>
  /\ status = RUNNING
  /\ code = 0
  /\ error = NoError
  /\ log = IF name \in Files THEN <<Op("open", name, NULL)>> ELSE <<>>

InitFile ==
  /\ \E opt \in {Flat, OneSection, Nested}, name \in Files \cup {Missing} :
       StartFile(opt, name)
  /\ build = "any"
  /\ runs = <<>>
  /\ cancel = NoCancel

\* the second call: parse_options on the bytes of the file
RerunString ==
  /\ status # RUNNING /\ runs = <<>>
  /\ string \in Files
  /\ runs' = <<[edit |-> "file", string |-> string, status |-> status,
                code |-> code, events |-> events, error |-> error]>>
  /\ string' = Contents[string]
  /\ file' = StringFile(Contents[string])
  /\ stack' = <<Frame("parse_file", Scope(0, 0, options), {OPTION})>>
  /\ events' = <<>>
  /\ status' = RUNNING
  /\ code' = 0
  /\ error' = NoError
  /\ log' = <<Op("open", <<"<string>">>, NULL)>>
  /\ UNCHANGED <<options, build, cancel>>

NextFile == Next \/ RerunString

SpecFile == InitFile /\ [][NextFile]_vars

-----------------------------------------------------------------------------
(* parse_options with a schema one of whose callbacks returns a negative    *)
(* code each time it is called.                                             *)

MaxCancelLines == 2

\* the code the callback returns: none of the parser's own codes
Cancelled == -7

Cancels ==
  { [kind |-> k, option |-> o, code |-> Cancelled] :
      k \in {"enter", "exit", "accept"}, o \in {2, 3, 4, 5, 6} }

InitCancel ==
  /\ \E in \in Calls(MaxCancelLines) \cup Examples : Start(in.options, in.string)
  /\ build = "any"
  /\ runs = <<>>
  /\ cancel \in Cancels

SpecCancel == InitCancel /\ [][Next]_vars

-----------------------------------------------------------------------------
(* include_file called on the parser.  include_filespec never calls it (it  *)
(* tests data.type == 1), so a harness does: in a parse_options call that   *)
(* stands in parse_section's loop it calls include_file(parser, scope,      *)
(* name), scope being the scope of an include directive of that section,    *)
(* and returns the code through the driver, which calls close_files.  The   *)
(* file the parser reads may itself have been included: it has up to        *)
(* MaxDepth includers above it, linked as include_file links them at lines  *)
(* 954-955.  `runs` keeps the parser the call was made on.                  *)

MaxDepth == 3

\* the limit the check include_file has in a comment compares the depth
\* with; the parser has no such field
include_limit == 2

\* the files above the file the parser reads, the outermost first
Includers == << <<"c">>, <<"d">>, <<"1">> >>

RECURSIVE chain_of(_)
\* the includer link of a file with d files above it
chain_of(d) ==
  IF d = 0 THEN <<>>
  ELSE <<[open_file(Includers[d]) EXCEPT !.includer = chain_of(d - 1)]>>

RECURSIVE Depth(_)
\* the number of files on the chain from parser->file
Depth(f) ==
  IF f = NoFile THEN 0
  ELSE 1 + Depth(IF f.includer = <<>> THEN NoFile ELSE f.includer[1])

InitInclude ==
  /\ \E in \in Calls(1) \cup Examples, d \in 0..MaxDepth :
       /\ options = in.options
       /\ string = in.string
       /\ file = [StringFile(in.string) EXCEPT !.includer = chain_of(d)]
       /\ log = [i \in 1..d |-> Op("open", Includers[i], NULL)]
                  \o <<Op("open", <<"<string>">>, NULL)>>
  /\ stack = <<Frame("parse_file", Scope(0, 0, options), {OPTION})>>
  /\ events = <<>>
  /\ status = RUNNING
  /\ code = 0
  /\ error = NoError
  /\ build = "any"
  /\ runs = <<>>
  /\ cancel = NoCancel

\* the harness: include_file(parser, &enclosed, name), then the code is
\* returned to the driver
IncludeFile ==
  /\ status = RUNNING /\ stack # <<>> /\ runs = <<>>
  /\ Top.fn = "parse_section" /\ Top.pc = "loop"
  /\ \E name \in Files \cup {Missing} :
       LET r == include_file(Context,
                             Append(Chain(stack), Scope(0, Top.last, include)),
                             name)
       IN /\ runs' = <<[edit |-> "include", string |-> name, file |-> file,
                        section |-> Top.scope.option, code |-> r.code,
                        log |-> log]>>
          /\ file' = r.file
          /\ events' = r.events
          /\ error' = r.error
          /\ log' = r.log
          /\ stack' = <<[stack[1] EXCEPT !.pc = "return", !.code = r.code]>>
  /\ UNCHANGED <<options, string, status, code, build, cancel>>

NextInclude == Next \/ IncludeFile

SpecInclude == InitInclude /\ [][NextInclude]_vars

-----------------------------------------------------------------------------
(* find_next_file on one entry of a directory: match_mask(entry->d_name,    *)
(* handle->file).  `string` is the mask and `runs` keeps the entry and      *)
(* whether it matched.                                                      *)

MaxName == 3
MaxMask == 3

\* the sequences over the bytes of at most n bytes
RECURSIVE Strings(_, _)
Strings(bytes, n) ==
  IF n = 0 THEN {<<>>}
  ELSE Strings(bytes, n - 1)
       \cup { Append(t, b) : t \in Strings(bytes, n - 1), b \in bytes }

Names == Strings({"a", "b", "*"}, MaxName)
Masks == Strings({"a", "b", "?", "*"}, MaxMask)

InitMatch ==
  /\ options = Flat
  /\ string \in Masks
  /\ file = NoFile
  /\ stack = <<>>
  /\ events = <<>>
  /\ status = RUNNING
  /\ code = 0
  /\ error = NoError
  /\ build = "any"
  /\ runs = <<>>
  /\ cancel = NoCancel
  /\ log = <<>>

\* readdir returns an entry; the entry is a result when match_mask says so
FindNext ==
  /\ status = RUNNING /\ stack = <<>> /\ runs = <<>>
  /\ \E name \in Names :
       runs' = <<[edit |-> "find", string |-> name,
                  matched |-> match_mask(name, string)]>>
  /\ UNCHANGED <<options, string, file, stack, events, status, code, error,
                 build, cancel, log>>

SpecMatch == InitMatch /\ [][FindNext]_vars

-----------------------------------------------------------------------------
(* parse_options on a section whose lines are indented with a tab or with  *)
(* a space.                                                                 *)

MaxTabLines == 3

TabLines ==
  { <<"b", "a", "z", ":">>,
    <<"\t", "f", "o", "o", ":", " ", "a">>,
    <<" ", "f", "o", "o", ":", " ", "a">>,
    <<"\t", "b", "a", "r", ":", " ", "b">>,
    <<" ", "b", "a", "r", ":", " ", "b">> }

InitTabs ==
  /\ \E t \in Texts(TabLines, MaxTabLines) : Start(OneSection, t)
  /\ build = "any"
  /\ runs = <<>>
  /\ cancel = NoCancel

SpecTabs == InitTabs /\ [][Next]_vars

-----------------------------------------------------------------------------
(* parse_options on an option of a section whose values go on over the     *)
(* next lines.                                                              *)

MaxValueLines == 4

ValueLines ==
  { <<"b", "a", "z", ":">>,
    <<" ", " ", "f", "o", "o", ":", " ", "a", "b">>,
    <<" ", " ", " ", " ">>,
    <<" ", " ", " ", " ", "c", "d">>,
    <<" ", " ", " ", " ", " ", " ", "c", "d">> }

InitValues ==
  /\ \E t \in Texts(ValueLines, MaxValueLines) : Start(OneSection, t)
  /\ build = "any"
  /\ runs = <<>>
  /\ cancel = NoCancel

SpecValues == InitValues /\ [][Next]_vars

-----------------------------------------------------------------------------
(* The input read as text, for the statements below: its lines, and a       *)
(* line's indent, identifier and value.                                     *)

RECURSIVE Lines(_)
Lines(str) ==
  IF str = <<>> THEN <<>>
  ELSE LET lf == { i \in 1..Len(str) : str[i] = "\n" }
           k == IF lf = {} THEN Len(str) + 1
                ELSE CHOOSE i \in lf : \A j \in lf : i <= j
       IN <<SubSeq(str, 1, k - 1)>> \o Lines(SubSeq(str, k + 1, Len(str)))

\* the number of spaces a line starts with
Indent(line) ==
  LET ns == { i \in 1..Len(line) : line[i] # " " }
  IN IF ns = {} THEN Len(line) ELSE (CHOOSE i \in ns : \A j \in ns : i <= j) - 1

\* where ch first stands in line, or 0
Find(line, ch) ==
  LET at == { i \in 1..Len(line) : line[i] = ch }
  IN IF at = {} THEN 0 ELSE CHOOSE i \in at : \A j \in at : i <= j

Identifier(line) == SubSeq(line, Indent(line) + 1, Find(line, ":") - 1)

\* what follows "identifier: "
Rest(line) == SubSeq(line, Find(line, ":") + 2, Len(line))

IsWord(v) == v # <<>> /\ \A i \in 1..Len(v) : v[i] \in Letters \cup Digits

IsQuoted(v) ==
  /\ Len(v) >= 2 /\ v[1] = "\"" /\ v[Len(v)] = "\""
  /\ \A i \in 2..(Len(v) - 1) : v[i] \notin {"\"", "\n", "\\"}

\* a value without the quotes around it
Unquoted(v) == IF IsQuoted(v) THEN SubSeq(v, 2, Len(v) - 1) ELSE v

\* the child of parent that the line's identifier names, or NULL
Declared(parent, line) ==
  IF parent = NULL THEN NULL
  ELSE first_match(Options[parent].options, 1, Identifier(line))

\* "identifier:" naming a section of parent
IsHeader(parent, line) ==
  /\ Len(line) > 0 /\ Find(line, ":") = Len(line)
  /\ IsWord(Identifier(line))
  /\ Declared(parent, line) # NULL
  /\ Options[Declared(parent, line)].code = SECTION

\* "identifier: " and what follows, the identifier naming an option of parent
IsOptionHead(parent, line) ==
  /\ Find(line, ":") > 0 /\ Find(line, ":") < Len(line)
  /\ line[Find(line, ":") + 1] = " "
  /\ IsWord(Identifier(line))
  /\ Declared(parent, line) # NULL
  /\ Options[Declared(parent, line)].code = OPTION

\* "identifier: value", the value plain or quoted
IsOptionLine(parent, line) ==
  /\ IsOptionHead(parent, line)
  /\ IsWord(Rest(line)) \/ IsQuoted(Rest(line))

\* the three parts of "value name=value"
SubParts(r) ==
  [value |-> SubSeq(r, 1, Find(r, " ") - 1),
   name |-> SubSeq(r, Find(r, " ") + 1, Find(r, "=") - 1),
   sub |-> SubSeq(r, Find(r, "=") + 1, Len(r))]

\* "identifier: value name=value", name a suboption of the option
IsSubLine(parent, line) ==
  /\ IsOptionHead(parent, line)
  /\ Find(Rest(line), " ") > 1
  /\ Find(Rest(line), "=") > Find(Rest(line), " ") + 1
  /\ IsWord(SubParts(Rest(line)).value)
  /\ IsWord(SubParts(Rest(line)).name)
  /\ IsWord(SubParts(Rest(line)).sub)
  /\ first_match(Options[Declared(parent, line)].options, 1,
                 SubParts(Rest(line)).name) # NULL

\* An event as the statements below compare it: its kind, its option and,
\* for accept, the value without quotes.
Seen(kind, option, value) == <<kind, option, value>>

Shown(evs, str) ==
  [i \in 1..Len(evs) |->
     Seen(evs[i].kind, evs[i].option,
          IF evs[i].kind = "accept"
          THEN Unquoted(SubSeq(str, evs[i].first + 1,
                               evs[i].first + evs[i].length))
          ELSE <<>>)]

\* the events the specification gives a line of parent's scope
Visit(parent, line) ==
  LET o == Declared(parent, line)
      r == SubParts(Rest(line))
      x == first_match(Options[o].options, 1, r.name)
  IN IF IsSubLine(parent, line)
     THEN <<Seen("enter", o, <<>>), Seen("accept", o, r.value),
            Seen("enter", x, <<>>), Seen("accept", x, r.sub),
            Seen("exit", x, <<>>), Seen("exit", o, <<>>)>>
     ELSE <<Seen("enter", o, <<>>), Seen("accept", o, Unquoted(Rest(line))),
            Seen("exit", o, <<>>)>>

RECURSIVE VisitAll(_, _)
VisitAll(parent, lines) ==
  IF lines = <<>> THEN <<>>
  ELSE Visit(parent, lines[1]) \o VisitAll(parent, Tail(lines))

-----------------------------------------------------------------------------
(* C1: a section and its options *)

\* the input is "S:" and then lines "indent option: value", the same
\* non-empty indent on each
C1_Input ==
  LET ls == Lines(string)
      S == Options[OneSection].options[1]
  IN /\ options = OneSection
     /\ Len(ls) >= 2
     /\ ls[1] = Options[S].pattern \o <<":">>
     /\ Indent(ls[2]) > 0
     /\ \A i \in 2..Len(ls) :
          IsOptionLine(S, ls[i]) /\ Indent(ls[i]) = Indent(ls[2])

\* C1: for a schema of one section S and an input of the line "S:" followed
\* by N >= 1 lines of the same non-empty indent, each a child option with a
\* value, with or without a final line feed, parse_options returns 0 and the
\* events are exactly enter(S), then enter, accept, exit for each line in
\* order, then exit(S).
C1_SectionOfOptions ==
  (status # RUNNING /\ C1_Input) =>
    /\ status = RETURNED /\ code = 0
    /\ Shown(events, string) =
         <<Seen("enter", Options[OneSection].options[1], <<>>)>>
         \o VisitAll(Options[OneSection].options[1], Tail(Lines(string)))
         \o <<Seen("exit", Options[OneSection].options[1], <<>>)>>

-----------------------------------------------------------------------------
(* C2: an identifier of an enclosing scope ends the section *)

\* The line of the identifier that is shallower than the section it follows
\* and as deep as an enclosing scope that declares it, in an input of three
\* or four well-formed lines; 0 when the input is not of that shape.
C2_Line ==
  LET ls == Lines(string)
      S == Declared(options, ls[1])
  IN IF options # Nested \/ Len(ls) \notin {3, 4} THEN 0
     ELSE IF ~(IsHeader(options, ls[1]) /\ Indent(ls[1]) = 0) THEN 0
     ELSE IF /\ IsOptionLine(S, ls[2]) /\ Indent(ls[2]) > 0
             /\ Len(ls) = 3
             /\ IsOptionLine(options, ls[3]) /\ Indent(ls[3]) = 0
     THEN 3
     ELSE IF /\ IsOptionLine(S, ls[2]) /\ Indent(ls[2]) > 0
             /\ Len(ls) = 4
             /\ IsHeader(options, ls[3]) /\ Indent(ls[3]) = 0
             /\ IsOptionLine(Declared(options, ls[3]), ls[4])
             /\ Indent(ls[4]) > 0
     THEN 3
     ELSE IF /\ Len(ls) = 4
             /\ IsHeader(S, ls[2]) /\ Indent(ls[2]) > 0
             /\ IsOptionLine(Declared(S, ls[2]), ls[3])
             /\ Indent(ls[3]) > Indent(ls[2])
             /\ IsOptionLine(S, ls[4]) /\ Indent(ls[4]) = Indent(ls[2])
     THEN 4
     ELSE 0

\* C2: when an identifier stands on a line shallower than the section before
\* it, at the indent of an enclosing scope that declares it, the section's
\* exit fires, the enclosing scope enters the identifier's scope next, and
\* the parse returns 0 (as for two top-level sections with indented
\* children).
C2_EnclosingScopeResumes ==
  (status # RUNNING /\ C2_Line # 0) =>
    /\ status = RETURNED /\ code = 0
    /\ \E i \in 1..(Len(events) - 1) :
         /\ events[i].kind = "exit"
         /\ Options[events[i].option].code = SECTION
         /\ events[i + 1].kind = "enter"
         /\ events[i + 1].line = C2_Line

-----------------------------------------------------------------------------
(* C3: enter and exit are matched and nested *)

\* The scope of an enter or exit event is told by the option the callback
\* was given (the lexeme an exit is given is another matter).
ScopeOf(e) == e.option

RECURSIVE Matched(_, _, _)
\* open: the scopes entered and not yet exited, the innermost last
Matched(evs, i, open) ==
  IF i > Len(evs) THEN open = <<>>
  ELSE IF evs[i].kind = "enter"
  THEN Matched(evs, i + 1, Append(open, ScopeOf(evs[i])))
  ELSE IF evs[i].kind = "exit"
  THEN /\ open # <<>>
       /\ open[Len(open)] = ScopeOf(evs[i])
       /\ Matched(evs, i + 1, SubSeq(open, 1, Len(open) - 1))
  ELSE Matched(evs, i + 1, open)

\* C3: when parse_options returns 0, every enter has exactly one exit of the
\* same scope, and a scope's exit comes after the exits of all scopes
\* entered after it.
C3_EnterExitMatched ==
  (status = RETURNED /\ code = 0) => Matched(events, 1, <<>>)

\* a parse that returned 0 after entering an option inside a section
C3_Witness ==
  /\ status = RETURNED /\ code = 0
  /\ Len(events) >= 5
  /\ events[1].kind = "enter" /\ events[2].kind = "enter"

-----------------------------------------------------------------------------
(* C4: events come in depth-first textual order *)

RECURSIVE DepthFirst(_, _, _, _)
\* open: the enter events of the scopes not yet exited; entered: the offset
\* of the last identifier entered.  An enter is of an identifier after all
\* those entered before; an accept or exit is of the innermost open scope.
DepthFirst(evs, i, open, entered) ==
  IF i > Len(evs) THEN TRUE
  ELSE IF evs[i].kind = "enter"
  THEN /\ evs[i].first > entered
       /\ DepthFirst(evs, i + 1, Append(open, evs[i]), evs[i].first)
  ELSE IF evs[i].kind = "accept"
  THEN /\ open # <<>>
       /\ open[Len(open)].option = evs[i].option
       /\ evs[i].first > entered
       /\ DepthFirst(evs, i + 1, open, entered)
  ELSE /\ open # <<>>
       /\ open[Len(open)].option = evs[i].option
       /\ DepthFirst(evs, i + 1, SubSeq(open, 1, Len(open) - 1), entered)

\* C4: at every point of every parse the events so far are in depth-first
\* textual order: the events of a scope lie between the enter and the exit
\* of the scope around it, a scope is exited before a later scope beside it
\* is entered, and no identifier of the input is entered twice.
C4_DepthFirstOrder == DepthFirst(events, 1, <<>>, -1)


-----------------------------------------------------------------------------
(* C5: options at the top level *)

C5_Input ==
  LET ls == Lines(string)
  IN /\ options = Flat
     /\ ls # <<>>
     /\ \A i \in 1..Len(ls) : IsOptionLine(Flat, ls[i]) /\ Indent(ls[i]) = 0

\* C5: for a schema of top-level options and an input whose lines each start
\* at column 1 with a declared option, ':' and a plain or quoted value,
\* parse_options returns 0 and the events are enter, accept, exit for each
\* line in order and nothing else.
C5_FlatOptions ==
  (status # RUNNING /\ C5_Input) =>
    /\ status = RETURNED /\ code = 0
    /\ Shown(events, string) = VisitAll(Flat, Lines(string))

-----------------------------------------------------------------------------
(* C6: a child at an indent that matches no scope *)

\* the lines "j spaces, child: value" with 0 < j < k that follow a section
\* header and children indented by k
C6_Lines ==
  LET ls == Lines(string)
      S == Options[OneSection].options[1]
  IN IF /\ options = OneSection /\ Len(ls) >= 3
        /\ ls[1] = Options[S].pattern \o <<":">>
        /\ IsOptionLine(S, ls[2])
     THEN { b \in 3..Len(ls) :
              /\ \A i \in 3..(b - 1) :
                   IsOptionLine(S, ls[i]) /\ Indent(ls[i]) = Indent(ls[2])
              /\ IsOptionLine(S, ls[b])
              /\ Indent(ls[b]) > 0 /\ Indent(ls[b]) < Indent(ls[2]) }
     ELSE {}

\* C6: a child line indented by j bytes, 0 < j < k, in a section whose
\* children are indented by k bytes makes the parse return SYNTAX_ERROR, and
\* no event is emitted for anything on that line.
C6_MismatchedIndent ==
  status # RUNNING =>
    \A b \in C6_Lines :
      /\ status = RETURNED /\ code = SYNTAX_ERROR
      /\ \A i \in 1..Len(events) : events[i].line # b

-----------------------------------------------------------------------------
(* C7: suboptions *)

C7_Input ==
  LET ls == Lines(string)
  IN /\ options = Flat
     /\ ls # <<>>
     /\ \A i \in 1..Len(ls) :
          /\ Indent(ls[i]) = 0
          /\ IsOptionLine(Flat, ls[i]) \/ IsSubLine(Flat, ls[i])
     /\ \E i \in 1..Len(ls) : IsSubLine(Flat, ls[i])

\* C7: a line "option: value x=v", x a suboption of the option, gives the
\* events enter(option), accept(option, value), enter(x), accept(x, v),
\* exit(x), exit(option), and parse_options returns 0.
C7_Suboption ==
  (status # RUNNING /\ C7_Input) =>
    /\ status = RETURNED /\ code = 0
    /\ Shown(events, string) = VisitAll(Flat, Lines(string))

-----------------------------------------------------------------------------
(* C8, C9: the same input, edited *)

\* C8: if the input with its final line feed parses with return code 0, the
\* input without that line feed returns 0 with the same events.
C8_NoFinalLineFeed ==
  (/\ status # RUNNING /\ runs # <<>>
   /\ runs[1].edit = "chop"
   /\ runs[1].status = RETURNED /\ runs[1].code = 0) =>
    /\ status = RETURNED /\ code = 0
    /\ Shown(events, string) = Shown(runs[1].events, runs[1].string)

\* C9: an empty line or a line of spaces inserted where a line starts leaves
\* the return code and the events as they were.
C9_BlankLineInserted ==
  (/\ status # RUNNING /\ runs # <<>>
   /\ runs[1].edit \in {"blank", "space"}
   /\ runs[1].status = RETURNED) =>
    /\ status = RETURNED /\ code = runs[1].code
    /\ Shown(events, string) = Shown(runs[1].events, runs[1].string)

-----------------------------------------------------------------------------
(* C10: a quoted value that is not closed on its line *)

RECURSIVE Closed(_, _, _)
\* a quote that is not escaped stands between offset i and the line's end
Closed(str, i, escaped) ==
  IF i > Len(str) \/ str[i] = "\n" THEN FALSE
  ELSE IF str[i] = "\"" /\ ~escaped THEN TRUE
  ELSE Closed(str, i + 1, str[i] = "\\" /\ ~escaped)

LineOf(str, p) == 1 + Cardinality({ i \in 1..(p - 1) : str[i] = "\n" })

\* the scanner stands at the quote at p: every token before it was handed
\* out, and the next byte to scan is the quote
AtQuote(p) ==
  /\ string[p] = "\""
  /\ file.buffer.first = p - 1
  /\ file.tokens.last = file.tokens.size

\* C10: once the scanner stands at a quote whose value has a line feed or the
\* end of the input before the closing quote, the call that scans it returns
\* SYNTAX_ERROR, parse_options returns SYNTAX_ERROR with the error on the
\* line of the quote, and no accept is emitted for the value.
C10_UnclosedQuote ==
  \A p \in 1..Len(string) :
    (AtQuote(p) /\ ~Closed(string, p + 1, FALSE)) =>
      /\ \A i \in 1..Len(events) :
           ~(events[i].kind = "accept" /\ events[i].first = p - 1)
      /\ (status = RUNNING /\ Top.pc = "return") =>
           Top.code = SYNTAX_ERROR /\ error.line = LineOf(string, p)
      /\ status # RUNNING =>
           /\ status = RETURNED /\ code = SYNTAX_ERROR
           /\ error.line = LineOf(string, p)

\* parse_options returned SYNTAX_ERROR for a quoted value on the second line
\* that the line's end cuts, after events of the first line
C10_Witness ==
  /\ status = RETURNED /\ code = SYNTAX_ERROR
  /\ error.message = "line feed in quoted value"
  /\ error.line = 2
  /\ events # <<>>
  /\ \E p \in 1..Len(string) : AtQuote(p) /\ ~Closed(string, p + 1, FALSE)

-----------------------------------------------------------------------------
(* C11: a callback that returns a negative code ends the parse *)

\* a callback has returned a negative code
Refused == \E i \in 1..Len(events) : events[i].callback /\ events[i].returned < 0

\* the code the first such callback returned
Refusal ==
  events[CHOOSE i \in 1..Len(events) :
           /\ events[i].callback /\ events[i].returned < 0
           /\ \A j \in 1..(i - 1) : ~(events[j].callback /\ events[j].returned < 0)].returned

\* C11: once an enter or exit callback has returned a negative code c, it is
\* the last event, no step after it calls a callback or scans a token, the
\* process does not die, and the driver returns c.
C11_CallbackRefuses ==
  /\ [](Refused => /\ events[Len(events)].returned < 0
                   /\ \A i \in 1..(Len(events) - 1) : events[i].returned >= 0
                   /\ status \in {RUNNING, RETURNED}
                   /\ status = RETURNED => code = Refusal)
  /\ [][Refused => /\ events' = events
                   /\ file'.buffer.first = file.buffer.first
                   /\ file'.tokens.size <= file.tokens.size]_vars

-----------------------------------------------------------------------------
(* C12: the lexeme handed to the accept callback *)

\* C12: every value accepted is handed to the accept callback of its schema
\* node, once, as a lexeme inside the buffer that holds the token's bytes
\* without the quotes of a quoted value.
C12_AcceptLexeme ==
  \A i \in 1..Len(events) :
    events[i].kind = "accept" =>
      /\ events[i].callback
      /\ events[i].first + events[i].length <= Len(string)
      /\ events[i].length > 0 => string[events[i].first + 1] # "\""
      /\ \A j \in 1..Len(events) :
           (events[j].kind = "accept" /\ events[j].first = events[i].first) => j = i


-----------------------------------------------------------------------------
(* C13: parse_options_file and parse_options on the same bytes *)

\* no line of the text is an include directive
NoInclude(text) ==
  \A i \in 1..Len(Lines(text)) :
    Identifier(Lines(text)[i]) # Options[include].pattern

\* C13: parse_options_file on a readable file without include directives
\* has had the file's bytes in its buffer when it returns, and parse_options
\* on those bytes returns the same code with the same events.
C13_FileAsString ==
  /\ (status = RETURNED /\ runs = <<>> /\ string \in Files
        /\ NoInclude(Contents[string])) =>
       file.buffer.data = Contents[string]
  /\ (status # RUNNING /\ runs # <<>> /\ runs[1].edit = "file"
        /\ NoInclude(string)) =>
       /\ status = runs[1].status
       /\ code = runs[1].code
       /\ events = runs[1].events

-----------------------------------------------------------------------------
(* C14: a circular include *)

\* the files the include directives of a file name
Included(name) ==
  { n \in Files :
      \E i \in 1..Len(Lines(Contents[name])) :
        LET line == Lines(Contents[name])[i]
        IN /\ Identifier(line) = Options[include].pattern
           /\ match_mask(n, Rest(line)) }

RECURSIVE Reach(_, _)
\* the files reached from names over at most k more includes
Reach(names, k) ==
  IF k = 0 THEN names
  ELSE Reach(names \cup UNION { Included(n) : n \in names }, k - 1)

\* the file is reached from itself
Circular(name) ==
  name \in Files /\ name \in Reach(Included(name), Cardinality(Files))

\* C14: parse_options_file on a file that is reached from itself over
\* includes returns SEMANTIC_ERROR, and the file is not parsed a second time.
C14_CircularInclude ==
  (status # RUNNING /\ runs = <<>> /\ Circular(string)) =>
    /\ status = RETURNED /\ code = SEMANTIC_ERROR
    /\ \A k \in 1..Len(log) : ~(log[k].op = "parse" /\ log[k].name = string)


-----------------------------------------------------------------------------
(* C15: the parser's file after include_file *)

\* the harness called include_file
Called == runs # <<>> /\ runs[1].edit = "include"

\* C15: after include_file returns 0 or more, parser->file is the includer
\* again, with the buffer offset, the token stack, the cursor, the latest
\* indent and the includer link it had when include_file was called.
C15_IncluderRestored == (Called /\ runs[1].code >= 0) => file = runs[1].file

-----------------------------------------------------------------------------
(* C16: the scope an included file is parsed in *)

\* C16: the file scope include_file calls parse_file with has the children
\* of the section that holds the include directive, so that the section's
\* identifiers are permitted at the top level of the included file.
C16_IncludedScope ==
  Called => \A i \in 1..Len(log) :
              log[i].op = "parse" =>
                Options[log[i].option].options = Options[runs[1].section].options

-----------------------------------------------------------------------------
(* C17: include_filespec and the results of the search *)

\* the index of the last find_close before the k-th entry of the log, or 0
Before(k) ==
  LET at == { j \in 1..(k - 1) : log[j].op = "find_close" }
  IN IF at = {} THEN 0 ELSE CHOOSE j \in at : \A i \in at : i <= j

\* the names include_file was called with during the search closed at k
IncludedAt(k) ==
  SelectSeq(SubSeq(log, Before(k) + 1, k - 1), LAMBDA e : e.op = "include")

\* the results of the search that are regular files, in the order found
Regular(filespec) ==
  SelectSeq(find_file(filespec).found,
            LAMBDA e : find_type(e.d_type) = FIND_REGULAR)

\* C17: when include_filespec has closed a search, it has called
\* include_file once for each regular file the search found, in the order
\* found, and for no other result, up to the first call that failed; and
\* for all of them when the parse returns 0.
C17_IncludeEachRegular ==
  \A k \in 1..Len(log) :
    log[k].op = "find_close" =>
      /\ Len(IncludedAt(k)) <= Len(Regular(log[k].name))
      /\ \A i \in 1..Len(IncludedAt(k)) :
           IncludedAt(k)[i].name = Regular(log[k].name)[i].d_name
      /\ (status = RETURNED /\ code = 0) =>
           Len(IncludedAt(k)) = Len(Regular(log[k].name))


-----------------------------------------------------------------------------
(* C18: the files are closed when the driver returns *)

\* how many entries of the log are the operation on the file
Count(op, name) ==
  Cardinality({ i \in 1..Len(log) : log[i].op = op /\ log[i].name = name })

-----------------------------------------------------------------------------
(* C19: the include depth *)

\* what include_file added to the log
Since == SubSeq(log, Len(runs[1].log) + 1, Len(log))

-----------------------------------------------------------------------------
(* C20: the token stack when the top-level parse_file returns *)

\* the parse_file call of the driver has returned 0 and the driver has not
\* yet returned
FileParsed ==
  /\ status = RUNNING /\ Len(stack) = 1
  /\ Top.fn = "parse_file" /\ Top.pc = "return" /\ Top.code = 0

\* C20: when the top-level parse_file returns 0, the token stack of the file
\* holds the sentinel at index 0 and nothing else.
C20_TokensReduced == FileParsed => file.tokens.size = 1


-----------------------------------------------------------------------------
(* C21: match_mask and the wildcard rules *)

RECURSIVE Wild(_, _)
\* the wildcard rules: '*' stands for any run of bytes of the name, '?' for
\* any one byte, any other byte of the mask for itself
Wild(name, mask) ==
  IF mask = <<>> THEN name = <<>>
  ELSE IF Head(mask) = "*"
  THEN \E k \in 0..Len(name) :
         Wild(SubSeq(name, k + 1, Len(name)), Tail(mask))
  ELSE /\ name # <<>>
       /\ Head(mask) = "?" \/ Head(mask) = Head(name)
       /\ Wild(Tail(name), Tail(mask))

Found == runs # <<>> /\ runs[1].edit = "find"

\* C21: match_mask returns true exactly when the name matches the mask
\* under the wildcard rules, for every name and mask of the bounded lengths.
C21_MatchMask == Found => (runs[1].matched <=> Wild(runs[1].string, string))

\* a name that is used up before the mask, the rest of which is '*' twice
C21_Witness ==
  /\ Found /\ runs[1].matched
  /\ string = <<"a", "*", "*">> /\ runs[1].string = <<"a">>


-----------------------------------------------------------------------------
(* C22: the preconditions of reduce *)

\* C22: no call of reduce during a parse is rejected by the asserts at its
\* entry: the index is above 0 and below the cursor, the cursor is at most
\* the size, and the index is not the latest indent.
C22_ReducePreconditions ==
  \A i \in 1..Len(log) : ~(log[i].op = "assert" /\ log[i].name = <<"reduce">>)


-----------------------------------------------------------------------------
(* C23: the tokens the live scopes hold *)

\* the scopes of the calls that have not returned
Live == { i \in 1..Len(stack) : stack[i].pc # "return" }

\* the identifier index of a scope designates the token of its option
HoldsIdentifier(scope) ==
  scope.identifier # 0 =>
    /\ scope.identifier < file.tokens.size
    /\ HasOptionBit(Tok(file, scope.identifier).code)
    /\ Tok(file, scope.identifier).option = scope.option

\* the indent index of a scope designates an indent token, which is a run
\* of space that starts a line
HoldsIndent(scope) ==
  scope.indent # 0 =>
    /\ scope.indent < file.tokens.size
    /\ Tok(file, scope.indent).code = SPACE
    /\ Tok(file, scope.indent).column = 1

\* C23: between the steps of a parse, hence after every reduce, the indent
\* index and the identifier index of each live scope designate the token
\* they were recorded for: the identifier of the scope's option and an
\* indent token.
C23_ScopesHoldTokens ==
  status = RUNNING =>
    \A i \in Live : HoldsIdentifier(stack[i].scope) /\ HoldsIndent(stack[i].scope)


-----------------------------------------------------------------------------
(* C24: the token a callee unshifted *)

\* parse_option or parse_section has returned 0 or more into the loop that
\* called it
Returning ==
  /\ status = RUNNING /\ Len(stack) > 1
  /\ Top.pc = "return" /\ Top.code >= 0

\* the token at the cursor, which the next shift returns without a scan
Unshifted(f) == Tok(f, f.tokens.last)

\* C24: when parse_option or parse_section returns after it unshifted a
\* token, that token (END_OF_FILE or one of the option family) lies at the
\* cursor, below the size, and it is still the token at the cursor after the
\* reduce of the enclosing loop: the next shift returns it without scanning.
C24_UnshiftedIsNext ==
  [][Returning =>
       /\ file.tokens.last < file.tokens.size
       /\ Unshifted(file).code = END_OF_FILE \/ HasOptionBit(Unshifted(file).code)
       /\ status' = RUNNING =>
            /\ file'.tokens.last < file'.tokens.size
            /\ Unshifted(file') = Unshifted(file)]_vars


-----------------------------------------------------------------------------
(* C25: the option of a token of the option family *)

\* C25: a token on the token stack whose code has the OPTION bit carries an
\* option, and the option is a node of that code.
C25_OptionTokens ==
  \A i \in 0..(file.tokens.size - 1) :
    HasOptionBit(Tok(file, i).code) =>
      /\ Tok(file, i).option # NULL
      /\ Options[Tok(file, i).option].code = Tok(file, i).code


-----------------------------------------------------------------------------
(* C26: is_option and the bytes of the indentation *)

\* the bytes of the token at index i
Span(i) ==
  SubSeq(file.buffer.data, Tok(file, i).first + 1,
         Tok(file, i).first + Tok(file, i).size)

Prefix(a, b) == Len(a) <= Len(b) /\ SubSeq(b, 1, Len(a)) = a

\* the token scanned last is an identifier that is_option resolved, on a
\* line that starts with the latest indent, and no call has returned an error
Resolved ==
  /\ status = RUNNING
  /\ \A k \in 1..Len(stack) : stack[k].pc = "return" => stack[k].code >= 0
  /\ file.tokens.size > 1 /\ file.indent # 0
  /\ Tok(file, file.tokens.size - 1).code \in {OPTION, SECTION}
  /\ Tok(file, file.tokens.size - 1).option # NULL
  /\ Tok(file, file.tokens.size - 1).line = Tok(file, file.indent).line

\* the option is a child of the option of scope X, the indent of X is no
\* longer than the latest indent and its bytes start the latest indent; a
\* scope below the file scope that has no indent yet takes the latest one
ChildOf(option, X) ==
  /\ \E j \in 1..Len(Options[X.option].options) :
        Options[X.option].options[j] = option
  /\ X.indent = 0 \/ Prefix(Span(X.indent), Span(file.indent))

\* C26: an identifier that is_option resolved on an indented line is a child
\* of a scope below the file scope whose indent bytes are the leading bytes
\* of the latest indent.
C26_IndentPrefix ==
  Resolved =>
    \E k \in 2..Len(stack) :
      ChildOf(Tok(file, file.tokens.size - 1).option, stack[k].scope)


-----------------------------------------------------------------------------
(* C27: an indented identifier at file level *)

\* how many of the first n events are of the kind
Fired(kind, n) == Cardinality({ j \in 1..n : events[j].kind = kind })

\* event i enters an option or a section while no scope is open: the
\* identifier was dispatched by parse_file
EnteredAtFileLevel(i) ==
  /\ events[i].kind = "enter"
  /\ Options[events[i].option].code \in {OPTION, SECTION}
  /\ Fired("enter", i - 1) = Fired("exit", i - 1)

\* C27: no option or section is entered at file level from an identifier
\* that has whitespace before it on its line, whichever line it is.
C27_FileLevelIndent ==
  \A i \in 1..Len(events) : EnteredAtFileLevel(i) => events[i].column = 1


-----------------------------------------------------------------------------
(* C28: a value that starts a line inside an option *)

\* parse_option, with the indent of its scope fixed, is about to shift a
\* value that starts a line
AtValue ==
  /\ status = RUNNING /\ stack # <<>>
  /\ Top.fn = "parse_option" /\ Top.pc = "loop"
  /\ Top.newline /\ VALUE \in Top.state /\ Top.scope.indent # 0
  /\ shift(Context, Chain(stack), Top.state).halt = "none"
  /\ shift(Context, Chain(stack), Top.state).code \in {VALUE, QUOTED_VALUE}

LineIndent == Tok(file, file.indent).size
ScopeIndent == Tok(file, Top.scope.indent).size

\* C28: a value that starts a line indented deeper than the indent of the
\* option's scope is refused with SEMANTIC_ERROR, "scope did not match",
\* and not accepted; one indented as the scope is accepted.
C28_ContinuationValue ==
  [][(AtValue /\ status' = RUNNING) =>
       /\ LineIndent > ScopeIndent =>
            /\ events' = events
            /\ Top'.pc = "return" /\ Top'.code = SEMANTIC_ERROR
            /\ error'.message = "scope did not match"
       /\ LineIndent = ScopeIndent =>
            /\ Len(events') = Len(events) + 1
            /\ events'[Len(events')].kind = "accept"]_vars


-----------------------------------------------------------------------------
(* C29: the lexeme of the exit callback *)

\* C29: the lexeme an exit callback is called with is the lexeme the enter
\* callback of that scope was called with: the location, the offset and
\* the length of the identifier token.
C29_ExitLexeme ==
  \A j \in 1..Len(events) :
    events[j].kind = "exit" =>
      \E i \in 1..(j - 1) :
        /\ events[i].kind = "enter"
        /\ events[i].option = events[j].option
        /\ events[i].line = events[j].line
        /\ events[i].column = events[j].column
        /\ events[i].first = events[j].first
        /\ events[i].length = events[j].length


-----------------------------------------------------------------------------
(* C30: parse_options terminates *)

\* No loop of parse_file, parse_section, parse_option or scan runs forever:
\* a call that keeps taking steps comes to an end.
LoopsEnd == []<><<Next>>_vars => <>(status # RUNNING)

\* C30: on every input and with every schema the call of parse_options,
\* once it has come to its end, has returned a code: it has not been ended
\* by an abort, a fault or an access outside its buffers.
C30_Returns == status # RUNNING => status = RETURNED


=============================================================================
